---------------------------- MODULE Spec2Model ----------------------------
(***************************************************************************)
(* A model of package git (src/git/git.go): the Go binding to libgit2.     *)
(*                                                                         *)
(* The Go wrappers are modelled from git.go.  The functions of libgit2     *)
(* they forward to (git_config_*, git_repository_*, git_commit_*, ...) are *)
(* not part of git.go; their behaviour is modelled from sections 4.2-4.4   *)
(* of the specification and kept in operators of their own, named after    *)
(* the C function.                                                         *)
(*                                                                         *)
(* Strings are sequences of bytes (0 is the NUL byte), so that the         *)
(* Go string <-> C string conversions do what C.CString and C.GoString do. *)
(***************************************************************************)
EXTENDS Integers, Sequences, FiniteSets, TLC

VARIABLES
    disk,      \* the file system: path -> repository layout (config file, HEAD, objects)
    repos,     \* the Repository values handed out: <<[path, rel, loaded, entries]>>
    configs,   \* the Config values handed out: <<[owner, rel]>>
    commits,   \* the Commit values handed out: <<[owner, rel, freed, oid]>>
    trees,     \* the Tree values handed out: <<[owner, rel, freed, oid]>>
    giterr,    \* libgit2's last-error slot, read by lastErr()
    pending,   \* per caller: the failed C call whose error lastErr() has yet to fetch
    ret,       \* the step just taken: the call, its arguments and what it returned
    crashed    \* the process was aborted (an outcome of undefined behaviour)

vars == <<disk, repos, configs, commits, trees, giterr, pending, ret, crashed>>

---------------------------------------------------------------------------
(* Bounds of the model. *)

\* Repository and Config values a run may create, taken together.
MaxHandles == 2
\* Commit and Tree values a run may create, taken together.
MaxObjects == 2
\* Width in bits of the modelled int64 / int64_t (64 in the program; TLC's
\* integers are 32 bits wide, so the width is scaled down).
IntBits == 5
\* Goroutines that call into the package.
NumCallers == 2

Callers == 1..NumCallers

---------------------------------------------------------------------------
(* Values. *)

NoErr == ""
NoOid == <<>>
None == "-"

MinInt64 == -(2 ^ (IntBits - 1))
MaxInt64 == 2 ^ (IntBits - 1) - 1
Int64 == MinInt64..MaxInt64

\* Two's complement wrap of n to `bits` bits.
Wrap(n, bits) ==
    LET m == 2 ^ bits
        r == n % m
    IN  IF r >= 2 ^ (bits - 1) THEN r - m ELSE r

\* The bytes of s before its first NUL byte.
UpToNul(s) ==
    LET nuls == {i \in 1..Len(s) : s[i] = 0}
    IN  IF nuls = {} THEN s
        ELSE SubSeq(s, 1, (CHOOSE i \in nuls : \A j \in nuls : i <= j) - 1)

\* C.CString(s): the bytes of s followed by a NUL; what C reads of it ends at
\* the first NUL byte, which may be one of s.
CString(s) == UpToNul(s \o <<0>>)

\* C.GoString(p): the bytes at p up to the first NUL.
GoString(p) == UpToNul(p \o <<0>>)

\* C.int from bool (SetBool), and back (GetBool).
BoolToCInt(value) == IF value THEN 1 ELSE 0
CIntToBool(v) == v = 1

\* C.int64_t(value) in SetInt64 narrowed by one bit.
ToCInt64_narrow(value) == Wrap(value, IntBits - 1)

\* C.int64_t(value) in SetInt64, int64(v) in GetInt64: both types are 64 bits wide.
ToCInt64(value) == Wrap(value, IntBits)
FromCInt64(v) == Wrap(v, IntBits)

\* "true", "false"
TrueStr == <<116, 114, 117, 101>>
FalseStr == <<102, 97, 108, 115, 101>>
TrueWords == {TrueStr, <<121, 101, 115>>, <<111, 110>>, <<49>>}
FalseWords == {FalseStr, <<110, 111>>, <<111, 102, 102>>, <<48>>}

Lower(s) == [i \in 1..Len(s) |-> IF s[i] >= 65 /\ s[i] <= 90 THEN s[i] + 32 ELSE s[i]]

\* Decimal text of an integer, and back.
RECURSIVE Digits(_)
Digits(m) == IF m < 10 THEN <<48 + m>> ELSE Digits(m \div 10) \o <<48 + (m % 10)>>

FormatInt(n) == IF n < 0 THEN <<45>> \o Digits(-n) ELSE Digits(n)

RECURSIVE DigitsValue(_)
DigitsValue(s) ==
    IF Len(s) = 0 THEN 0
    ELSE 10 * DigitsValue(SubSeq(s, 1, Len(s) - 1)) + (s[Len(s)] - 48)

ParseInt(s) ==
    LET signed == Len(s) > 0 /\ s[1] \in {43, 45}
        body == IF signed THEN SubSeq(s, 2, Len(s)) ELSE s
        wellFormed == Len(body) > 0 /\ \A i \in 1..Len(body) : body[i] \in 48..57
        n == IF signed /\ s[1] = 45 THEN -DigitsValue(body) ELSE DigitsValue(body)
    IN  IF wellFormed /\ n \in Int64 THEN [ok |-> TRUE, v |-> n]
        ELSE [ok |-> FALSE, v |-> 0]

\* Lowercase hexadecimal text of an object identifier.
HexDigit == <<"0", "1", "2", "3", "4", "5", "6", "7", "8", "9", "a", "b", "c", "d", "e", "f">>

RECURSIVE git_oid_allocfmt(_)
git_oid_allocfmt(oid) ==
    IF Len(oid) = 0 THEN ""
    ELSE HexDigit[(oid[1] \div 16) + 1] \o HexDigit[(oid[1] % 16) + 1]
            \o git_oid_allocfmt(Tail(oid))

oidToString(oid) == git_oid_allocfmt(oid)

---------------------------------------------------------------------------
(* The config store of libgit2: section.key -> text. *)

\* The key a name denotes: section and key names are case-insensitive.
Key(cname) == Lower(cname)

Put(entries, key, text) ==
    [k \in DOMAIN entries \cup {key} |-> IF k = key THEN text ELSE entries[k]]

Ok(v) == [rc |-> "GIT_OK", v |-> v, msg |-> NoErr]
Err(msg, zero) == [rc |-> "GIT_ERROR", v |-> zero, msg |-> msg]

git_config_get_string(entries, cname) ==
    IF Key(cname) \notin DOMAIN entries THEN Err("KeyNotFound", <<>>)
    ELSE Ok(entries[Key(cname)])

git_config_get_bool(entries, cname) ==
    IF Key(cname) \notin DOMAIN entries THEN Err("KeyNotFound", 0)
    ELSE IF Lower(entries[Key(cname)]) \in TrueWords THEN Ok(1)
    ELSE IF Lower(entries[Key(cname)]) \in FalseWords THEN Ok(0)
    ELSE Err("InvalidValueType", 0)

git_config_get_int64(entries, cname) ==
    IF Key(cname) \notin DOMAIN entries THEN Err("KeyNotFound", 0)
    ELSE IF ParseInt(entries[Key(cname)]).ok THEN Ok(ParseInt(entries[Key(cname)]).v)
    ELSE Err("InvalidValueType", 0)

\* The set functions: io is whether the backing file could be written.
git_config_set_string(entries, cname, cvalue, io) ==
    IF io THEN [rc |-> "GIT_OK", entries |-> Put(entries, Key(cname), cvalue), msg |-> NoErr]
    ELSE [rc |-> "GIT_ERROR", entries |-> entries, msg |-> "PermissionDenied"]

git_config_set_bool(entries, cname, v, io) ==
    git_config_set_string(entries, cname, IF v # 0 THEN TrueStr ELSE FalseStr, io)

git_config_set_int64(entries, cname, v, io) ==
    git_config_set_string(entries, cname, FormatInt(v), io)

---------------------------------------------------------------------------
(* What each Config method computes: the value and error it returns and,   *)
(* for a Set, the entries it leaves.                                       *)

Returned(val) == [failed |-> FALSE, val |-> val, msg |-> NoErr]
Failed(zero, msg) == [failed |-> TRUE, val |-> zero, msg |-> msg]

\* GetBool without the test of the C call's result.
GetBoolResult_unchecked(entries, name) ==
    Returned(CIntToBool(git_config_get_bool(entries, CString(name)).v))

GetBoolResult(entries, name) ==
    LET r == git_config_get_bool(entries, CString(name))
    IN  IF r.rc # "GIT_OK" THEN Failed(FALSE, r.msg) ELSE Returned(CIntToBool(r.v))

GetStringResult(entries, name) ==
    LET r == git_config_get_string(entries, CString(name))
    IN  IF r.rc # "GIT_OK" THEN Failed(<<>>, r.msg) ELSE Returned(GoString(r.v))

GetInt64Result(entries, name) ==
    LET r == git_config_get_int64(entries, CString(name))
    IN  IF r.rc # "GIT_OK" THEN Failed(0, r.msg) ELSE Returned(FromCInt64(r.v))

Stored(r) == [failed |-> r.rc # "GIT_OK", entries |-> r.entries, msg |-> r.msg]

SetBoolResult(entries, name, value, io) ==
    Stored(git_config_set_bool(entries, CString(name), BoolToCInt(value), io))

\* SetString with cname and cvalue passed in each other's place.
SetStringResult_swapped(entries, name, value, io) ==
    Stored(git_config_set_string(entries, CString(value), CString(name), io))

SetStringResult(entries, name, value, io) ==
    Stored(git_config_set_string(entries, CString(name), CString(value), io))

SetInt64Result(entries, name, value, io) ==
    Stored(git_config_set_int64(entries, CString(name), ToCInt64(value), io))

GetResult(op, entries, name) ==
    CASE op = "GetBool" -> GetBoolResult(entries, name)
      [] op = "GetString" -> GetStringResult(entries, name)
      [] op = "GetInt64" -> GetInt64Result(entries, name)

SetResult(op, entries, name, value, io) ==
    CASE op = "SetBool" -> SetBoolResult(entries, name, value, io)
      [] op = "SetString" -> SetStringResult(entries, name, value, io)
      [] op = "SetInt64" -> SetInt64Result(entries, name, value, io)

GetOps == {"GetBool", "GetString", "GetInt64"}
SetOps == {"SetBool", "SetString", "SetInt64"}

---------------------------------------------------------------------------
(* The file system and the object store. *)

\* Paths: "r" holds a repository, "p" is a plain directory, "m" does not
\* exist, "n" is where InitRepository creates a repository.
RepoPath == <<114>>
PlainPath == <<112>>
MissingPath == <<109>>
NewPath == <<110>>
Paths == {RepoPath, PlainPath, MissingPath, NewPath}

\* Object identifiers (20 bytes in the program; one byte here): two commits
\* and the tree of each.
Commit1 == <<10>>
Commit2 == <<243>>
Tree1 == <<27>>
Tree2 == <<196>>
CommitOids == {Commit1, Commit2}
AllOids == {Commit1, Commit2, Tree1, Tree2}
TreeOf(oid) == IF oid = Commit1 THEN Tree1 ELSE Tree2

\* Config names: "c.i" (core.ignorecase), "g.l" (github.login), and a name
\* with a NUL byte in it: "c.i\0x".
NameCI == <<99, 46, 105>>
NameGL == <<103, 46, 108>>
NameNul == <<99, 46, 105, 0, 120>>
\* "c.b" (core.bare), written by git_repository_init.
NameBare == <<99, 46, 98>>

NoDir == [exists |-> FALSE, repo |-> FALSE, config |-> <<>>, head |-> NoOid, objects |-> {}]
PlainDir == [exists |-> TRUE, repo |-> FALSE, config |-> <<>>, head |-> NoOid, objects |-> {}]
RepoDir(config, head, objects) ==
    [exists |-> TRUE, repo |-> TRUE, config |-> config, head |-> head, objects |-> objects]

\* The config file the tests install (testdata/config), cut to one key.
FixtureConfig == Put(<<>>, NameCI, TrueStr)

---------------------------------------------------------------------------
(* Calls, returns and errors. *)

\* Arguments and results as ret and pending record them: one shape for a
\* bool, an integer, a byte string, a text and nothing.
NoVal == [kind |-> "none", b |-> FALSE, i |-> 0, s |-> <<>>, x |-> ""]
BoolVal(b) == [NoVal EXCEPT !.kind = "bool", !.b = b]
IntVal(i) == [NoVal EXCEPT !.kind = "int", !.i = i]
BytesVal(s) == [NoVal EXCEPT !.kind = "bytes", !.s = s]
TextVal(x) == [NoVal EXCEPT !.kind = "text", !.x = x]

\* The value a Get returns or a Set is given, as recorded.
ValOf(op, v) ==
    CASE op \in {"GetBool", "SetBool"} -> BoolVal(v)
      [] op \in {"GetString", "SetString"} -> BytesVal(v)
      [] op \in {"GetInt64", "SetInt64"} -> IntVal(v)

Idle == [op |-> None, obj |-> 0, name |-> <<>>, arg |-> NoVal, zero |-> NoVal, msg |-> NoErr]

Event(t, op, obj, name, arg, val, err, own, phase) ==
    [t |-> t, op |-> op, obj |-> obj, name |-> name, arg |-> arg, val |-> val,
     err |-> err, own |-> own, phase |-> phase]

\* A caller may start a call when it is not inside one and the process runs.
CanCall(t) == ~crashed /\ pending[t].op = None

\* The call returns val and a nil error.
Return(t, op, obj, name, arg, val) ==
    /\ ret' = Event(t, op, obj, name, arg, val, NoErr, NoErr, "return")
    /\ UNCHANGED <<giterr, pending, crashed>>

\* The C call failed: libgit2 has put its message in the error slot and the
\* wrapper goes on to `return zero, lastErr()`.
Fail(t, op, obj, name, arg, zero, msg) ==
    /\ giterr' = msg
    /\ pending' = [pending EXCEPT ![t] =
                      [op |-> op, obj |-> obj, name |-> name, arg |-> arg,
                       zero |-> zero, msg |-> msg]]
    /\ ret' = Event(t, op, obj, name, arg, zero, NoErr, msg, "failed")
    /\ UNCHANGED crashed

\* The process is aborted inside the call.
Crash(t, op, obj, name, arg) ==
    /\ crashed' = TRUE
    /\ ret' = Event(t, op, obj, name, arg, NoVal, NoErr, NoErr, "crash")
    /\ UNCHANGED <<giterr, pending>>

\* lastErr(): the message in the error slot, as the error the call returns.
lastErr(t) ==
    /\ ~crashed
    /\ pending[t].op # None
    /\ ret' = Event(t, pending[t].op, pending[t].obj, pending[t].name, pending[t].arg,
                    pending[t].zero, giterr, pending[t].msg, "return")
    /\ pending' = [pending EXCEPT ![t] = Idle]
    /\ UNCHANGED <<disk, repos, configs, commits, trees, giterr, crashed>>

\* One more release of a native handle: rel is 0 (not released), 1 (released
\* once) or 2 (released more than once).
Release(rel) == IF rel = 0 THEN 1 ELSE 2

\* A handle that has been released, or whose repository has been.
RepoReleased(r) == repos[r].rel > 0
ConfigDangling(c) == configs[c].rel > 0 \/ RepoReleased(configs[c].owner)
CommitDangling(c) == commits[c].rel > 0 \/ RepoReleased(commits[c].owner)
TreeDangling(x) == trees[x].rel > 0 \/ RepoReleased(trees[x].owner)

---------------------------------------------------------------------------
(* Repository. *)

git_repository_open(cpath) ==
    IF ~disk[cpath].exists THEN Err("PathNotFound", 0)
    ELSE IF ~disk[cpath].repo THEN Err("NotARepository", 0)
    ELSE Ok(0)

OpenRepository(t, path) ==
    /\ CanCall(t)
    /\ LET r == git_repository_open(CString(path))
       IN  IF r.rc # "GIT_OK"
           THEN /\ Fail(t, "OpenRepository", 0, path, NoVal, NoVal, r.msg)
                /\ UNCHANGED repos
           ELSE /\ Len(repos) + Len(configs) < MaxHandles
                /\ repos' = Append(repos, [path |-> CString(path), rel |-> 0,
                                           loaded |-> FALSE, entries |-> <<>>])
                /\ Return(t, "OpenRepository", Len(repos) + 1, path, NoVal, NoVal)
    /\ UNCHANGED <<disk, configs, commits, trees>>

\* Repository.Free: git_repository_free on the handle, whatever its state.
RepositoryFree(t, r) ==
    /\ CanCall(t)
    /\ r \in DOMAIN repos
    /\ \/ /\ repos' = [repos EXCEPT ![r].rel = Release(@)]
          /\ Return(t, "RepositoryFree", r, <<>>, NoVal, NoVal)
       \/ /\ RepoReleased(r)
          /\ Crash(t, "RepositoryFree", r, <<>>, NoVal)
          /\ UNCHANGED repos
    /\ UNCHANGED <<disk, configs, commits, trees>>

\* git_repository_config: the repository's config store, parsed from its
\* config file on first use and cached in the repository from then on. io is
\* whether the file could be read.
git_repository_config(repo, io) ==
    IF repo.loaded THEN [rc |-> "GIT_OK", repo |-> repo, msg |-> NoErr]
    ELSE IF ~io THEN [rc |-> "GIT_ERROR", repo |-> repo, msg |-> "PermissionDenied"]
    ELSE [rc |-> "GIT_OK", msg |-> NoErr,
          repo |-> [repo EXCEPT !.loaded = TRUE, !.entries = disk[repo.path].config]]

\* Repository.Config.
RepositoryConfig(t, r, io) ==
    /\ CanCall(t)
    /\ r \in DOMAIN repos
    /\ \/ LET g == git_repository_config(repos[r], io)
          IN  IF g.rc # "GIT_OK"
              THEN /\ Fail(t, "Config", r, <<>>, NoVal, NoVal, g.msg)
                   /\ UNCHANGED <<repos, configs>>
              ELSE /\ Len(repos) + Len(configs) < MaxHandles
                   /\ repos' = [repos EXCEPT ![r] = g.repo]
                   /\ configs' = Append(configs, [owner |-> r, rel |-> 0])
                   /\ Return(t, "Config", Len(configs) + 1, <<>>, NoVal, NoVal)
       \/ /\ RepoReleased(r)
          /\ Crash(t, "Config", r, <<>>, NoVal)
          /\ UNCHANGED <<repos, configs>>
    /\ UNCHANGED <<disk, commits, trees>>

\* git_repository_init on a directory that holds a repository already, as
\* if the layout were always written anew.
git_repository_init_overwrite(dir, cbare, io) ==
    IF ~io THEN [rc |-> "GIT_ERROR", dir |-> dir, msg |-> "PermissionDenied"]
    ELSE [rc |-> "GIT_OK", msg |-> NoErr,
          dir |-> RepoDir(Put(<<>>, NameBare, IF cbare # 0 THEN TrueStr ELSE FalseStr),
                          NoOid, {})]

\* git_repository_init: creates the layout (a config file with defaults, an
\* empty object store, HEAD naming an unborn branch) unless the directory
\* holds a repository already, which it leaves as it is. io is whether the
\* directory could be written.
git_repository_init(dir, cbare, io) ==
    IF ~io THEN [rc |-> "GIT_ERROR", dir |-> dir, msg |-> "PermissionDenied"]
    ELSE IF dir.repo THEN [rc |-> "GIT_OK", dir |-> dir, msg |-> NoErr]
    ELSE [rc |-> "GIT_OK", msg |-> NoErr,
          dir |-> RepoDir(Put(<<>>, NameBare, IF cbare # 0 THEN TrueStr ELSE FalseStr),
                          NoOid, {})]

InitRepository(t, path, bare, io) ==
    /\ CanCall(t)
    /\ LET cbare == IF bare THEN 1 ELSE 0
           g == git_repository_init(disk[CString(path)], cbare, io)
       IN  IF g.rc # "GIT_OK"
           THEN /\ Fail(t, "InitRepository", 0, path, BoolVal(bare), NoVal, g.msg)
                /\ UNCHANGED <<repos, disk>>
           ELSE /\ Len(repos) + Len(configs) < MaxHandles
                /\ disk' = [disk EXCEPT ![CString(path)] = g.dir]
                /\ repos' = Append(repos, [path |-> CString(path), rel |-> 0,
                                           loaded |-> FALSE, entries |-> <<>>])
                /\ Return(t, "InitRepository", Len(repos) + 1, path, BoolVal(bare), NoVal)
    /\ UNCHANGED <<configs, commits, trees>>

\* git_repository_head and git_reference_oid: the identifier the branch that
\* HEAD names holds.
git_repository_head(dir) ==
    IF dir.head = NoOid THEN Err("NoCommitsYet", NoOid) ELSE Ok(dir.head)

git_commit_lookup(dir, oid) ==
    IF oid \notin dir.objects THEN Err("ObjectNotFound", NoOid) ELSE Ok(oid)

\* Repository.Head.
RepositoryHead(t, r) ==
    /\ CanCall(t)
    /\ r \in DOMAIN repos
    /\ \/ LET dir == disk[repos[r].path]
              h == git_repository_head(dir)
              l == git_commit_lookup(dir, h.v)
          IN  IF h.rc # "GIT_OK"
              THEN /\ Fail(t, "Head", r, <<>>, NoVal, NoVal, h.msg)
                   /\ UNCHANGED commits
              ELSE IF l.rc # "GIT_OK"
              THEN /\ Fail(t, "Head", r, <<>>, NoVal, NoVal, l.msg)
                   /\ UNCHANGED commits
              ELSE /\ Len(commits) + Len(trees) < MaxObjects
                   /\ commits' = Append(commits,
                          [owner |-> r, rel |-> 0, freed |-> FALSE, oid |-> l.v])
                   /\ Return(t, "Head", Len(commits) + 1, <<>>, NoVal, NoVal)
       \/ /\ RepoReleased(r)
          /\ Crash(t, "Head", r, <<>>, NoVal)
          /\ UNCHANGED commits
    /\ UNCHANGED <<disk, repos, configs, trees>>

---------------------------------------------------------------------------
(* Config. *)

\* The store a Config reads and writes: that of its repository.
Entries(c) == repos[configs[c].owner].entries

ConfigFree(t, c) ==
    /\ CanCall(t)
    /\ c \in DOMAIN configs
    /\ \/ /\ configs' = [configs EXCEPT ![c].rel = Release(@)]
          /\ Return(t, "ConfigFree", c, <<>>, NoVal, NoVal)
       \/ /\ ConfigDangling(c)
          /\ Crash(t, "ConfigFree", c, <<>>, NoVal)
          /\ UNCHANGED configs
    /\ UNCHANGED <<disk, repos, commits, trees>>

\* GetBool, GetString, GetInt64.
Get(t, op, c, name) ==
    /\ CanCall(t)
    /\ c \in DOMAIN configs
    /\ \/ LET r == GetResult(op, Entries(c), name)
          IN  IF r.failed
              THEN Fail(t, op, c, name, NoVal, ValOf(op, r.val), r.msg)
              ELSE Return(t, op, c, name, NoVal, ValOf(op, r.val))
       \/ /\ ConfigDangling(c)
          /\ Crash(t, op, c, name, NoVal)
    /\ UNCHANGED <<disk, repos, configs, commits, trees>>

GetBool(t, c, name) == Get(t, "GetBool", c, name)
GetString(t, c, name) == Get(t, "GetString", c, name)
GetInt64(t, c, name) == Get(t, "GetInt64", c, name)

\* SetBool, SetString, SetInt64: the value is set in the store and written
\* to the config file of the repository.
Set(t, op, c, name, value, io) ==
    /\ CanCall(t)
    /\ c \in DOMAIN configs
    /\ \/ LET r == SetResult(op, Entries(c), name, value, io)
              p == repos[configs[c].owner].path
              w == SetResult(op, disk[p].config, name, value, io)
          IN  IF r.failed
              THEN /\ Fail(t, op, c, name, ValOf(op, value), NoVal, r.msg)
                   /\ UNCHANGED <<repos, disk>>
              ELSE /\ repos' = [repos EXCEPT ![configs[c].owner].entries = r.entries]
                   /\ disk' = [disk EXCEPT ![p].config = w.entries]
                   /\ Return(t, op, c, name, ValOf(op, value), NoVal)
       \/ /\ ConfigDangling(c)
          /\ Crash(t, op, c, name, ValOf(op, value))
          /\ UNCHANGED <<repos, disk>>
    /\ UNCHANGED <<configs, commits, trees>>

SetBool(t, c, name, value, io) == Set(t, "SetBool", c, name, value, io)
SetString(t, c, name, value, io) == Set(t, "SetString", c, name, value, io)
SetInt64(t, c, name, value, io) == Set(t, "SetInt64", c, name, value, io)

---------------------------------------------------------------------------
(* Commit and Tree. *)

\* What git_commit_id / git_tree_id point at: the identifier of the loaded
\* object, or whatever the memory holds once it has been released.
IdsAt(obj, dangling) ==
    IF dangling THEN AllOids ELSE {obj.oid}

\* Commit.Id: formats the identifier and then, deferred, passes the pointer
\* git_commit_id returned (memory of the commit) to C.free.
CommitId(t, c) ==
    /\ CanCall(t)
    /\ c \in DOMAIN commits
    /\ \/ \E oid \in IdsAt(commits[c], CommitDangling(c)) :
             /\ commits' = [commits EXCEPT ![c].rel = Release(@)]
             /\ Return(t, "CommitId", c, <<>>, NoVal, TextVal(oidToString(oid)))
       \/ /\ Crash(t, "CommitId", c, <<>>, NoVal)
          /\ UNCHANGED commits
    /\ UNCHANGED <<disk, repos, configs, trees>>

\* git_commit_tree: the tree object the commit names.
git_commit_tree(dir, commitOid) ==
    IF TreeOf(commitOid) \notin dir.objects THEN Err("ObjectNotFound", NoOid)
    ELSE Ok(TreeOf(commitOid))

\* Commit.Tree.
CommitTree(t, c) ==
    /\ CanCall(t)
    /\ c \in DOMAIN commits
    /\ \/ LET g == git_commit_tree(disk[repos[commits[c].owner].path], commits[c].oid)
          IN  IF g.rc # "GIT_OK"
              THEN /\ Fail(t, "CommitTree", c, <<>>, NoVal, NoVal, g.msg)
                   /\ UNCHANGED trees
              ELSE /\ Len(commits) + Len(trees) < MaxObjects
                   /\ trees' = Append(trees,
                          [owner |-> commits[c].owner, rel |-> 0, freed |-> FALSE,
                           oid |-> g.v])
                   /\ Return(t, "CommitTree", c, <<>>, NoVal, IntVal(Len(trees) + 1))
       \/ /\ CommitDangling(c)
          /\ Crash(t, "CommitTree", c, <<>>, NoVal)
          /\ UNCHANGED trees
    /\ UNCHANGED <<disk, repos, configs, commits>>

\* Commit.Free.
CommitFree(t, c) ==
    /\ CanCall(t)
    /\ c \in DOMAIN commits
    /\ \/ /\ commits' = [commits EXCEPT ![c].rel = Release(@), ![c].freed = TRUE]
          /\ Return(t, "CommitFree", c, <<>>, NoVal, NoVal)
       \/ /\ CommitDangling(c)
          /\ Crash(t, "CommitFree", c, <<>>, NoVal)
          /\ UNCHANGED commits
    /\ UNCHANGED <<disk, repos, configs, trees>>

\* Tree.Id: as Commit.Id, on the pointer git_tree_id returned.
TreeId(t, x) ==
    /\ CanCall(t)
    /\ x \in DOMAIN trees
    /\ \/ \E oid \in IdsAt(trees[x], TreeDangling(x)) :
             /\ trees' = [trees EXCEPT ![x].rel = Release(@)]
             /\ Return(t, "TreeId", x, <<>>, NoVal, TextVal(oidToString(oid)))
       \/ /\ Crash(t, "TreeId", x, <<>>, NoVal)
          /\ UNCHANGED trees
    /\ UNCHANGED <<disk, repos, configs, commits>>

\* Tree.Free.
TreeFree(t, x) ==
    /\ CanCall(t)
    /\ x \in DOMAIN trees
    /\ \/ /\ trees' = [trees EXCEPT ![x].rel = Release(@), ![x].freed = TRUE]
          /\ Return(t, "TreeFree", x, <<>>, NoVal, NoVal)
       \/ /\ TreeDangling(x)
          /\ Crash(t, "TreeFree", x, <<>>, NoVal)
          /\ UNCHANGED trees
    /\ UNCHANGED <<disk, repos, configs, commits>>

---------------------------------------------------------------------------
(* The config store: one goroutine opens repositories, obtains their       *)
(* configuration, reads and writes it and frees the Config values.         *)

Names == {NameCI, NameGL, NameNul}
\* "z" and "x\0y"
StringInputs == {<<122>>, <<120, 0, 121>>}
Int64Inputs == {MinInt64}

InitWith(d) ==
    /\ disk = d
    /\ repos = <<>>
    /\ configs = <<>>
    /\ commits = <<>>
    /\ trees = <<>>
    /\ giterr = NoErr
    /\ pending = [t \in Callers |-> Idle]
    /\ ret = Event(0, None, 0, <<>>, NoVal, NoVal, NoErr, NoErr, "return")
    /\ crashed = FALSE

Fixture(head, objects) ==
    [p \in Paths |->
        IF p = RepoPath THEN RepoDir(FixtureConfig, head, objects)
        ELSE IF p = PlainPath THEN PlainDir
        ELSE NoDir]

Init == InitWith(Fixture(Commit1, {Commit1, Tree1}))

Next ==
    \E t \in {1} :
        \/ \E path \in {RepoPath, PlainPath, MissingPath} : OpenRepository(t, path)
        \/ \E r \in DOMAIN repos : RepositoryConfig(t, r, TRUE)
        \/ \E c \in DOMAIN configs : ConfigFree(t, c)
        \/ \E c \in DOMAIN configs, name \in Names : GetBool(t, c, name)
        \/ \E c \in DOMAIN configs, name \in Names : GetString(t, c, name)
        \/ \E c \in DOMAIN configs, name \in Names : GetInt64(t, c, name)
        \/ \E c \in DOMAIN configs, name \in Names, v \in BOOLEAN :
              SetBool(t, c, name, v, TRUE)
        \/ \E c \in DOMAIN configs, name \in Names, v \in StringInputs :
              SetString(t, c, name, v, TRUE)
        \/ \E c \in DOMAIN configs, name \in Names, v \in Int64Inputs :
              SetInt64(t, c, name, v, TRUE)
        \/ lastErr(t)

Spec == Init /\ [][Next]_vars

---------------------------------------------------------------------------
(* Commits and trees: one goroutine opens a repository, looks up its head  *)
(* commit and the commit's tree, reads identifiers, touches the            *)
(* configuration and frees what it obtained, in any order.                 *)

\* The repository directories the runs start from: one commit (what the
\* tests create), an unborn branch, a head commit whose tree object is
\* missing, and a branch naming an object that is missing.
Fixtures ==
    {Fixture(Commit1, {Commit1, Tree1}), Fixture(NoOid, {}),
     Fixture(Commit1, {Commit1}), Fixture(Commit2, {Commit1, Tree1})}

InitObjects == \E d \in Fixtures : InitWith(d)

NextObjects ==
    \E t \in {1} :
        \/ OpenRepository(t, RepoPath)
        \/ \E r \in DOMAIN repos : RepositoryFree(t, r)
        \/ \E r \in DOMAIN repos : RepositoryHead(t, r)
        \/ \E c \in DOMAIN commits : CommitId(t, c)
        \/ \E c \in DOMAIN commits : CommitTree(t, c)
        \/ \E c \in DOMAIN commits : CommitFree(t, c)
        \/ \E x \in DOMAIN trees : TreeId(t, x)
        \/ \E x \in DOMAIN trees : TreeFree(t, x)
        \/ \E r \in DOMAIN repos : RepositoryConfig(t, r, TRUE)
        \/ \E c \in DOMAIN configs : GetBool(t, c, NameCI)
        \/ \E c \in DOMAIN configs : SetBool(t, c, NameCI, FALSE, TRUE)
        \/ lastErr(t)

SpecObjects == InitObjects /\ [][NextObjects]_vars

---------------------------------------------------------------------------
(* Initialising: one goroutine initialises and opens repositories at a     *)
(* path that holds one and at a path that does not, and writes their       *)
(* configuration.                                                          *)

NextInit ==
    \E t \in {1} :
        \/ \E path \in {RepoPath, NewPath}, bare \in BOOLEAN, io \in BOOLEAN :
              InitRepository(t, path, bare, io)
        \/ \E path \in {RepoPath, NewPath} : OpenRepository(t, path)
        \/ \E r \in DOMAIN repos : RepositoryFree(t, r)
        \/ \E r \in DOMAIN repos : RepositoryConfig(t, r, TRUE)
        \/ \E c \in DOMAIN configs, name \in {NameCI, NameGL}, v \in StringInputs :
              SetString(t, c, name, v, TRUE)
        \/ \E c \in DOMAIN configs, name \in {NameCI, NameGL} : GetString(t, c, name)
        \/ lastErr(t)

SpecInit == InitObjects /\ [][NextInit]_vars

---------------------------------------------------------------------------
(* Errors: several goroutines, each on repositories and configs of its     *)
(* own or not, make calls that fail.                                       *)

NextErr ==
    \E t \in Callers :
        \/ \E path \in {RepoPath, PlainPath, MissingPath} : OpenRepository(t, path)
        \/ \E r \in DOMAIN repos, io \in BOOLEAN : RepositoryConfig(t, r, io)
        \/ \E c \in DOMAIN configs, name \in {NameCI, NameGL} : GetInt64(t, c, name)
        \/ \E c \in DOMAIN configs, io \in BOOLEAN : SetBool(t, c, NameGL, TRUE, io)
        \/ \E r \in DOMAIN repos : RepositoryHead(t, r)
        \/ lastErr(t)

SpecErr == InitObjects /\ [][NextErr]_vars

---------------------------------------------------------------------------
(* The claims. ret describes the step just taken, so ret' in an action     *)
(* formula names the call a step makes and ret the call before it.         *)

\* The call returned a nil error.
Succeeded(e) == e.phase = "return" /\ e.err = NoErr

\* The Get that reads what a Set writes.
GetOf(op) ==
    CASE op = "SetBool" -> "GetBool"
      [] op = "SetString" -> "GetString"
      [] op = "SetInt64" -> "GetInt64"

\* The value a failed Get returns beside its error.
ZeroOf(op) ==
    CASE op = "GetBool" -> BoolVal(FALSE)
      [] op = "GetString" -> BytesVal(<<>>)
      [] op = "GetInt64" -> IntVal(0)

\* The key of the store that a name given by the caller denotes.
KeyOf(name) == Key(CString(name))

\* C1. Read-your-writes: a Get of the matching type on a Config that is in
\* use, right after a Set on the same Config and name returned no error,
\* returns the value that was given to the Set, and no error.
C1_ReadYourWrites ==
    [][(/\ ret.op \in SetOps
        /\ Succeeded(ret)
        /\ ret'.op = GetOf(ret.op)
        /\ ret'.obj = ret.obj
        /\ ret'.name = ret.name
        /\ ~ConfigDangling(ret.obj))
       => (Succeeded(ret') /\ ret'.val = ret.arg)]_vars

C4_Int64RoundTrip ==
    \A c \in DOMAIN configs :
        ~ConfigDangling(c) =>
            \A name \in Names, n \in Int64 :
                LET s == SetInt64Result(Entries(c), name, n, TRUE)
                IN  /\ ~s.failed
                    /\ GetInt64Result(s.entries, name) = Returned(n)

C4_Witness ==
    /\ ret.op = "GetInt64"
    /\ Succeeded(ret)
    /\ ~ConfigDangling(ret.obj)
    /\ ret.val = IntVal(MinInt64)
    /\ MinInt64 < -1

\* C5. Every Id() of a Commit that Head() returned, on a repository that is
\* open and a Commit the caller has not freed, returns, and returns the
\* identifier that the branch HEAD names holds.
C5_HeadId ==
    (/\ ret.op = "CommitId"
     /\ ~commits[ret.obj].freed
     /\ ~RepoReleased(commits[ret.obj].owner))
    => /\ ret.phase = "return"
       /\ ret.val = TextVal(oidToString(disk[repos[commits[ret.obj].owner].path].head))

\* C6. No Get, Set, Id or Tree runs on a Config, Commit or Tree whose
\* Repository has been closed.
C6_NoUseAfterClose ==
    /\ ret.op \in GetOps \cup SetOps => ~RepoReleased(configs[ret.obj].owner)
    /\ ret.op \in {"CommitId", "CommitTree"} => ~RepoReleased(commits[ret.obj].owner)
    /\ ret.op = "TreeId" => ~RepoReleased(trees[ret.obj].owner)

\* C7. The handle of a Repository is released at most once: a Free of a
\* Repository that is closed already changes nothing and ends normally.
C7_OneReleasePerOpen ==
    /\ \A r \in DOMAIN repos : repos[r].rel <= 1
    /\ ret.op = "RepositoryFree" => ret.phase = "return"

\* C8. InitRepository on a path that holds a repository leaves its config
\* file, its objects and its HEAD as they are, and fails for no other reason
\* than the directory being out of reach.
C8_ReinitKeepsData ==
    [][(/\ ret'.op = "InitRepository"
        /\ disk[CString(ret'.name)].repo)
       => (/\ disk' = disk
           /\ ret'.phase = "failed" => ret'.own = "PermissionDenied"
           /\ ret'.phase = "return" /\ ret'.err = NoErr
                 => /\ ret'.obj \in DOMAIN repos'
                    /\ repos'[ret'.obj].path = CString(ret'.name))]_vars

C8_Witness ==
    /\ ret.op = "InitRepository"
    /\ Succeeded(ret)
    /\ ret.name = RepoPath
    /\ disk[RepoPath].config = FixtureConfig
    /\ disk[RepoPath].head = Commit1
    /\ disk[RepoPath].objects = {Commit1, Tree1}

\* C9. The error a failing call returns is the message of its own failure.
C9_OwnError ==
    (ret.phase = "return" /\ ret.own # NoErr) => ret.err = ret.own

\* C10. Id() on a Commit or a Tree that the caller has not freed, of an open
\* repository, returns the identifier the object was loaded with and
\* releases nothing: the Commit and Tree values are as they were.
C10_IdIsPure ==
    [][/\ (/\ ret'.op = "CommitId"
           /\ ~commits[ret'.obj].freed
           /\ ~RepoReleased(commits[ret'.obj].owner))
          => (/\ ret'.phase = "return"
              /\ ret'.val = TextVal(oidToString(commits[ret'.obj].oid))
              /\ commits' = commits)
       /\ (/\ ret'.op = "TreeId"
           /\ ~trees[ret'.obj].freed
           /\ ~RepoReleased(trees[ret'.obj].owner))
          => (/\ ret'.phase = "return"
              /\ ret'.val = TextVal(oidToString(trees[ret'.obj].oid))
              /\ trees' = trees)]_vars

============================================================================
